---- MODULE Spec2Model ----
(***************************************************************************)
(* Verification model of the 360-proctor violation -> trust-score          *)
(* pipeline: the violation classifier and ledger                           *)
(* (services/violation_detection_service.py), the trust-score engine       *)
(* (services/trust_score_service.py), the real-time WebSocket handlers     *)
(* (api/api_v1/endpoints/realtime_proctoring.py) and the session           *)
(* coordinator (services/realtime_violation_service.py).                   *)
(*                                                                         *)
(* Numbers.  Scores, penalties and bonuses are Python floats; here they    *)
(* are integers in units of 1/10000 of a score point (100.0 = 1000000).    *)
(* Weights and confidences are in hundredths, severity and frequency       *)
(* multipliers in tenths, so that weight * severity * confidence *         *)
(* frequency * 100 is exactly the product of the four integers.            *)
(* Timestamps and the wall clock are in seconds.                           *)
(***************************************************************************)
EXTENDS Integers, Sequences, FiniteSets, TLC

VARIABLES
    session_violations,  \* ViolationDetectionService.session_violations (dict)
    score_history,       \* TrustScoreService.score_history (dict)
    result,              \* the TrustScoreResult in the response being sent
    now,                 \* wall clock (datetime.utcnow()), seconds
    ticks,               \* number of clock advances so far
    eval_log,            \* every final_score computed per session, in order
    violations_in,       \* a violation list handed to calculate_trust_score
    hpc,                 \* per WebSocket handler: where its coroutine stands
    hmsg,                \* per handler: the message it is handling
    hbatch,              \* per handler: the list process_*() will return
    hdone,               \* per handler: violations of hbatch already processed
    halert,              \* per handler: how each _process_violation ended
    finalized,           \* history: sessions whose 'completed' status message was seen (SpecRt)
    active_sessions,     \* RealTimeViolationService.active_sessions (dict)
    websocket_connections, \* RealTimeViolationService.websocket_connections
    rt_return,           \* what the last RealTimeViolationService call returned
    exam_session_table,  \* rows of ExamSession (db/models/exam.py), id = index
    alert_table,         \* rows of Alert, in insertion order
    db_return,           \* what the last ProctorService call returned, if it was the last call
    websocket_manager,   \* core/websocket_manager.py: the WebSocketManager instance
    realtime_analytics_service, \* services/realtime_analytics_service.py: the service instance
    rate_limiting_middleware    \* middleware/rate_limiting.py: the RateLimitingMiddleware instance

handler_vars == <<hpc, hmsg, hbatch, hdone, halert>>
rt_vars == <<active_sessions, websocket_connections, rt_return>>
db_vars == <<exam_session_table, alert_table, db_return>>
svc_vars == <<websocket_manager, realtime_analytics_service,
              rate_limiting_middleware>>

vars == <<session_violations, score_history, result, now, ticks, eval_log,
          violations_in, hpc, hmsg, hbatch, hdone, halert, finalized,
          active_sessions, websocket_connections, rt_return,
          exam_session_table, alert_table, db_return, websocket_manager,
          realtime_analytics_service, rate_limiting_middleware>>

(***************************************************************************)
(* Bounds of the model                                                     *)
(***************************************************************************)
MaxTicks == 1        \* clock advances per run
MaxLedger == 2       \* violations recorded per run, all sessions together
MaxEvals == 2        \* evaluations per run, all sessions together

SessionIds == {1, 2}
TickSteps == {400}
\* three WebSocket connections: two on session 1, one on session 2
Conns == {1, 2, 3}
ConnSession == <<1, 1, 2>>
CurrentTimes == {30}

Min(a, b) == IF a < b THEN a ELSE b
Max(a, b) == IF a > b THEN a ELSE b

\* dict.get(key, default)
Get(d, k, default) == IF k \in DOMAIN d THEN d[k] ELSE default

(***************************************************************************)
(* Trust-score engine: services/trust_score_service.py                     *)
(***************************************************************************)
Unit == 10000
base_score == 100 * Unit

\* _load_violation_weights, in hundredths
violation_weights ==
    [FACE_NOT_DETECTED |-> 15, MULTIPLE_FACES |-> 25, LOOKING_AWAY |-> 10,
     TAB_SWITCH |-> 20, WINDOW_BLUR |-> 15, AUDIO_DETECTED |-> 12,
     PHONE_DETECTED |-> 30, SUSPICIOUS_MOVEMENT |-> 8, COPY_PASTE |-> 25,
     RIGHT_CLICK |-> 5, FULLSCREEN_EXIT |-> 20]

\* _get_severity_multiplier, in tenths; multipliers.get(severity, 1.0)
SeverityMultiplier(severity) ==
    Get([LOW |-> 5, MEDIUM |-> 10, HIGH |-> 15, CRITICAL |-> 20], severity, 10)

\* number of events of type t among the first i events of vs
RECURSIVE CountType(_, _, _)
CountType(vs, t, i) ==
    IF i = 0 THEN 0
    ELSE CountType(vs, t, i - 1) + (IF vs[i].violation_type = t THEN 1 ELSE 0)

\* a frequency penalty that keeps growing past 2.0
FrequencyPenaltyUncapped(count) == 10 + (count - 1) * 2

\* frequency_penalty of the loop body, in tenths: min(2.0, 1.0 + (count-1)*0.2)
FrequencyPenalty(count) == Min(20, 10 + (count - 1) * 2)

\* base_penalty: self.violation_weights.get(violation_type, 0.1)
Weight(violation_type) == Get(violation_weights, violation_type, 10)

\* penalty of the i-th event of the loop in _calculate_violation_penalty
EventPenalty(vs, i) ==
    Weight(vs[i].violation_type)
      * SeverityMultiplier(vs[i].severity)
      * vs[i].confidence
      * FrequencyPenalty(CountType(vs, vs[i].violation_type, i))

RECURSIVE TotalPenalty(_, _)
TotalPenalty(vs, i) ==
    IF i = 0 THEN 0 ELSE TotalPenalty(vs, i - 1) + EventPenalty(vs, i)

\* a penalty without the cap at 80 points
ViolationPenaltyUncapped(vs) == TotalPenalty(vs, Len(vs))

\* _calculate_violation_penalty: min(80.0, total_penalty * 100)
ViolationPenalty(vs) == Min(80 * Unit, TotalPenalty(vs, Len(vs)))

\* a consistency bonus without the guard for an empty list
ConsistencyBonusNoEmptyGuard(vs, current_time) ==
    IF current_time < 10 THEN 0
    ELSE IF Len(vs) * 10 < Max(1, current_time) THEN 5 * Unit
    ELSE IF Len(vs) * 5 < Max(1, current_time) THEN 2 * Unit
    ELSE 0

\* a consistency bonus that is never awarded
ConsistencyBonusNone(vs, current_time) == 0

\* _calculate_consistency_bonus
ConsistencyBonus(vs, current_time) ==
    IF Len(vs) = 0 \/ current_time < 10 THEN 0
    ELSE IF Len(vs) * 10 < Max(1, current_time) THEN 5 * Unit
    ELSE IF Len(vs) * 5 < Max(1, current_time) THEN 2 * Unit
    ELSE 0

\* _calculate_time_penalty: events of the last 5 minutes, 2 points each, cap 20
TimePenalty(vs, clock) ==
    IF Len(vs) = 0 THEN 0
    ELSE Min(20 * Unit,
             Cardinality({i \in 1..Len(vs) : clock - vs[i].timestamp < 300})
               * 2 * Unit)

\* sorted(violations, key=lambda x: x.timestamp): stable insertion sort
RECURSIVE InsertByTime(_, _)
InsertByTime(sorted, v) ==
    IF sorted = <<>> THEN <<v>>
    ELSE IF sorted[Len(sorted)].timestamp <= v.timestamp
         THEN Append(sorted, v)
         ELSE Append(InsertByTime(SubSeq(sorted, 1, Len(sorted) - 1), v),
                     sorted[Len(sorted)])

RECURSIVE SortByTime(_)
SortByTime(vs) ==
    IF vs = <<>> THEN <<>>
    ELSE InsertByTime(SortByTime(SubSeq(vs, 1, Len(vs) - 1)), vs[Len(vs)])

\* severity_values.get(severity, 0) of _calculate_behavior_pattern_penalty
SeverityValue(severity) ==
    Get([LOW |-> 1, MEDIUM |-> 2, HIGH |-> 3, CRITICAL |-> 4], severity, 0)

\* _calculate_behavior_pattern_penalty
BehaviorPatternPenalty(vs) ==
    IF Len(vs) < 3 THEN 0
    ELSE LET sv == SortByTime(vs)
             rapid == Cardinality({i \in 2..Len(sv) :
                          sv[i].timestamp - sv[i-1].timestamp < 30})
             escalating == Cardinality({i \in 2..Len(sv) :
                          SeverityValue(sv[i].severity)
                            > SeverityValue(sv[i-1].severity)})
         IN Min(15 * Unit,
                (IF rapid > 2 THEN 10 * Unit ELSE 0)
                  + (IF 2 * escalating > Len(vs) THEN 5 * Unit ELSE 0))

\* _calculate_recovery_bonus; midpoint * 60 seconds = current_time * 30
RecoveryBonus(vs, current_time, clock) ==
    IF Len(vs) = 0 \/ current_time < 20 THEN 0
    ELSE LET early == Cardinality({i \in 1..Len(vs) :
                          clock - vs[i].timestamp > current_time * 30})
             recent == Cardinality({i \in 1..Len(vs) :
                          clock - vs[i].timestamp <= current_time * 30})
         IN IF early > recent /\ early > 2
            THEN Min(10 * Unit, ((early - recent) * 10 * Unit) \div early)
            ELSE 0

\* the five factors of calculate_trust_score (TrustScoreFactors)
Factors(vs, current_time, clock) ==
    [violation_penalty |-> ViolationPenalty(vs),
     consistency_bonus |-> ConsistencyBonus(vs, current_time),
     time_penalty |-> TimePenalty(vs, clock),
     behavior_pattern_penalty |-> BehaviorPatternPenalty(vs),
     recovery_bonus |-> RecoveryBonus(vs, current_time, clock)]

\* the unclamped sum: a broken final score
FinalScoreUnclamped(f) ==
    base_score - f.violation_penalty - f.time_penalty
      - f.behavior_pattern_penalty + f.consistency_bonus + f.recovery_bonus

\* final_score = max(0.0, min(100.0, base - penalties + bonuses))
FinalScore(f) ==
    Max(0, Min(100 * Unit,
        base_score - f.violation_penalty - f.time_penalty
          - f.behavior_pattern_penalty + f.consistency_bonus + f.recovery_bonus))

\* _get_score_category
ScoreCategory(score) ==
    IF score >= 90 * Unit THEN "excellent"
    ELSE IF score >= 75 * Unit THEN "good"
    ELSE IF score >= 60 * Unit THEN "fair"
    ELSE IF score >= 40 * Unit THEN "poor"
    ELSE "critical"

RECURSIVE SumDeltas(_, _)
SumDeltas(scores, i) ==
    IF i <= 1 THEN 0 ELSE SumDeltas(scores, i - 1) + scores[i] - scores[i-1]

\* _calculate_trend: reads the stored history only (current_score is unused)
Trend(history_dict, session_id) ==
    IF session_id \notin DOMAIN history_dict THEN "stable"
    ELSE LET history == history_dict[session_id]
             recent == SubSeq(history, Max(1, Len(history) - 2), Len(history))
             n == Len(recent) - 1
         IN IF Len(history) < 2 THEN "stable"
            ELSE IF SumDeltas(recent, Len(recent)) > 2 * Unit * n THEN "improving"
            ELSE IF SumDeltas(recent, Len(recent)) < -(2 * Unit * n) THEN "declining"
            ELSE "stable"

\* a history that is never trimmed
StoreUntrimmed(history_dict, session_id, score) ==
    [s \in DOMAIN history_dict \cup {session_id} |->
        IF s = session_id THEN Append(Get(history_dict, s, <<>>), score)
        ELSE history_dict[s]]

\* _store_score_history: append, keep the last 20
StoreScoreHistory(history_dict, session_id, score) ==
    [s \in DOMAIN history_dict \cup {session_id} |->
        IF s = session_id
        THEN LET h == Append(Get(history_dict, s, <<>>), score)
             IN IF Len(h) > 20 THEN SubSeq(h, Len(h) - 19, Len(h)) ELSE h
        ELSE history_dict[s]]

\* the TrustScoreResult of calculate_trust_score
TrustScoreResult(history_dict, session_id, vs, current_time, clock) ==
    LET f == Factors(vs, current_time, clock)
        final == FinalScore(f)
    IN [current_score |-> final,
        category |-> ScoreCategory(final),
        factors |-> f,
        violations_count |-> Len(vs),
        trend |-> Trend(history_dict, session_id),
        session_id |-> session_id]

NoResult == [current_score |-> base_score, category |-> "none", session_id |-> 0]

\* the record of every final_score computed for a session (line 96), in order
LogScore(log, session_id, score) ==
    [log EXCEPT ![session_id] = Append(@, score)]

(***************************************************************************)
(* Violation classifier and ledger: services/violation_detection_service.py*)
(***************************************************************************)
\* _load_violation_thresholds: severity and trust_score_impact (hundredths)
violation_thresholds ==
    [FACE_NOT_DETECTED |-> [trust_score_impact |-> 15, severity |-> "HIGH"],
     MULTIPLE_FACES |-> [trust_score_impact |-> 25, severity |-> "CRITICAL"],
     LOOKING_AWAY |-> [trust_score_impact |-> 10, severity |-> "MEDIUM"],
     TAB_SWITCH |-> [trust_score_impact |-> 20, severity |-> "HIGH"],
     WINDOW_BLUR |-> [trust_score_impact |-> 15, severity |-> "MEDIUM"],
     AUDIO_DETECTED |-> [trust_score_impact |-> 12, severity |-> "MEDIUM"],
     PHONE_DETECTED |-> [trust_score_impact |-> 30, severity |-> "CRITICAL"],
     SUSPICIOUS_MOVEMENT |-> [trust_score_impact |-> 8, severity |-> "LOW"],
     COPY_PASTE |-> [trust_score_impact |-> 25, severity |-> "HIGH"],
     RIGHT_CLICK |-> [trust_score_impact |-> 5, severity |-> "LOW"],
     FULLSCREEN_EXIT |-> [trust_score_impact |-> 20, severity |-> "HIGH"],
     BOOK_DETECTED |-> [trust_score_impact |-> 15, severity |-> "MEDIUM"],
     LAPTOP_DETECTED |-> [trust_score_impact |-> 20, severity |-> "HIGH"],
     UNAUTHORIZED_OBJECT |-> [trust_score_impact |-> 10, severity |-> "MEDIUM"]]

\* ViolationEvent(...) as every detector builds it (description, metadata and
\* user_id are carried along unread and are left out)
ViolationEvent(type, confidence, session_id, clock) ==
    [violation_type |-> type,
     severity |-> violation_thresholds[type].severity,
     confidence |-> confidence,
     timestamp |-> clock,
     session_id |-> session_id,
     trust_score_impact |-> violation_thresholds[type].trust_score_impact]

\* _detect_face_violations
DetectFaceViolations(session_id, face_data, clock) ==
    LET faces_detected == Get(face_data, "faces_detected", 0)
        confidence == Get(face_data, "confidence", 0)
        detection_method == Get(face_data, "detection_method", "basic")
    IN IF faces_detected = 0
       THEN <<ViolationEvent("FACE_NOT_DETECTED", confidence, session_id, clock)>>
       ELSE IF faces_detected > 1
       THEN <<ViolationEvent("MULTIPLE_FACES",
                  IF detection_method = "advanced" THEN Max(confidence, 95)
                  ELSE confidence, session_id, clock)>>
       ELSE <<>>

\* _detect_eye_violations
DetectEyeViolations(session_id, eye_data, clock) ==
    IF Get(eye_data, "looking_away", FALSE)
    THEN <<ViolationEvent("LOOKING_AWAY", Get(eye_data, "confidence", 0),
                          session_id, clock)>>
    ELSE <<>>

\* _detect_audio_violations
DetectAudioViolations(session_id, audio_data, clock) ==
    IF Get(audio_data, "audio_detected", FALSE)
    THEN <<ViolationEvent("AUDIO_DETECTED", Get(audio_data, "confidence", 0),
                          session_id, clock)>>
    ELSE <<>>

\* _detect_phone_violations
DetectPhoneViolations(session_id, phone_data, clock) ==
    LET confidence == Get(phone_data, "confidence", 0)
    IN IF Get(phone_data, "phone_detected", FALSE)
       THEN <<ViolationEvent("PHONE_DETECTED",
                  IF Get(phone_data, "detection_method", "basic") = "advanced"
                  THEN Max(confidence, 90) ELSE confidence, session_id, clock)>>
       ELSE <<>>

\* the labels _detect_object_violations skips (line 432); "" is a missing label
HandledLabels == {"person", "cell phone", "book", "laptop", ""}

\* _detect_object_violations
DetectObjectViolations(session_id, object_data, clock) ==
    LET objects == Get(object_data, "objects", <<>>)
        unauthorized == {i \in 1..Len(objects) : objects[i] \notin HandledLabels}
    IN (IF Get(object_data, "book_count", 0) > 0
        THEN <<ViolationEvent("BOOK_DETECTED", 85, session_id, clock)>> ELSE <<>>)
       \o (IF Get(object_data, "laptop_count", 0) > 0
           THEN <<ViolationEvent("LAPTOP_DETECTED", 90, session_id, clock)>> ELSE <<>>)
       \o (IF unauthorized # {}
           THEN <<ViolationEvent("UNAUTHORIZED_OBJECT", 80, session_id, clock)>>
           ELSE <<>>)

\* the detection block of process_frame_data (lines 138-171)
DetectFrameViolations(session_id, frame_data, clock) ==
    (IF "face_detection" \in DOMAIN frame_data
     THEN DetectFaceViolations(session_id, frame_data.face_detection, clock)
     ELSE <<>>)
    \o (IF "eye_tracking" \in DOMAIN frame_data
        THEN DetectEyeViolations(session_id, frame_data.eye_tracking, clock)
        ELSE <<>>)
    \o (IF "audio_data" \in DOMAIN frame_data
        THEN DetectAudioViolations(session_id, frame_data.audio_data, clock)
        ELSE <<>>)
    \o (IF "phone_detection" \in DOMAIN frame_data
        THEN DetectPhoneViolations(session_id, frame_data.phone_detection, clock)
        ELSE <<>>)
    \o (IF "object_detection" \in DOMAIN frame_data
        THEN DetectObjectViolations(session_id, frame_data.object_detection, clock)
        ELSE <<>>)

\* the if/elif chain of process_browser_event (lines 187-257)
BrowserEventTypes ==
    [tab_switch |-> "TAB_SWITCH", window_blur |-> "WINDOW_BLUR",
     copy_paste |-> "COPY_PASTE", right_click |-> "RIGHT_CLICK",
     fullscreen_exit |-> "FULLSCREEN_EXIT"]

DetectBrowserViolations(session_id, event_data, clock) ==
    LET event_type == Get(event_data, "type", "")
    IN IF event_type \in DOMAIN BrowserEventTypes
       THEN <<ViolationEvent(BrowserEventTypes[event_type], 100, session_id, clock)>>
       ELSE <<>>

\* get_session_violations: session_violations.get(session_id, [])
GetSessionViolations(ledger, session_id) == Get(ledger, session_id, <<>>)

\* a ledger filed under one shared key
LedgerKeyShared(violation) == 1

\* the key _process_violation files a violation under (lines 462-465)
LedgerKey(violation) == violation.session_id

\* a ledger that files the newest violation first
TrackViolationFront(ledger, violation) ==
    [s \in DOMAIN ledger \cup {LedgerKey(violation)} |->
        IF s = LedgerKey(violation)
        THEN <<violation>> \o Get(ledger, s, <<>>)
        ELSE ledger[s]]

\* _process_violation, lines 462-465: create the list if absent, append
TrackViolation(ledger, violation) ==
    [s \in DOMAIN ledger \cup {LedgerKey(violation)} |->
        IF s = LedgerKey(violation)
        THEN Append(Get(ledger, s, <<>>), violation)
        ELSE ledger[s]]

\* an except clause that undoes the append
ProcessViolationRollback(ledger, violation) ==
    [s \in DOMAIN ledger |->
        IF s = LedgerKey(violation) /\ Len(ledger[s]) > 0
        THEN SubSeq(ledger[s], 1, Len(ledger[s]) - 1) ELSE ledger[s]]

\* _process_violation, lines 482-483: the except clause only logs
ProcessViolationExcept(ledger, violation) == ledger

(***************************************************************************)
(* Real-time proctoring WebSocket handlers:                                *)
(* api/api_v1/endpoints/realtime_proctoring.py.  The handlers are          *)
(* coroutines of one event loop; a coroutine keeps the loop until it       *)
(* reaches an await that really suspends.  The response send_text at the   *)
(* end of each handler changes no modelled state and is folded into the    *)
(* return to receive_text.                                                 *)
(***************************************************************************)
\* results of ai_detection_service.process_frame (a black-box detector)
AiResultNames == {"clean", "noface", "crowd", "desk", "error"}
AiResult(name) ==
    CASE name = "clean" ->
           [face_detection |-> [faces_detected |-> 1, confidence |-> 90,
                                detection_method |-> "basic"],
            eye_tracking |-> [looking_away |-> FALSE, confidence |-> 80],
            phone_detection |-> [phone_detected |-> FALSE, confidence |-> 90,
                                 detection_method |-> "basic"]]
      [] name = "noface" ->
           [face_detection |-> [faces_detected |-> 0, confidence |-> 10,
                                detection_method |-> "basic"],
            eye_tracking |-> [looking_away |-> FALSE, confidence |-> 30],
            phone_detection |-> [phone_detected |-> FALSE, confidence |-> 90,
                                 detection_method |-> "basic"]]
      [] name = "crowd" ->
           [face_detection |-> [faces_detected |-> 2, confidence |-> 90,
                                detection_method |-> "advanced"],
            eye_tracking |-> [looking_away |-> FALSE, confidence |-> 80],
            phone_detection |-> [phone_detected |-> TRUE, confidence |-> 80,
                                 detection_method |-> "advanced"],
            object_detection |-> [objects |-> <<"person", "person", "cell phone">>,
                                  book_count |-> 0, laptop_count |-> 0]]
      [] name = "desk" ->
           [face_detection |-> [faces_detected |-> 1, confidence |-> 90,
                                detection_method |-> "advanced"],
            eye_tracking |-> [looking_away |-> FALSE, confidence |-> 80],
            phone_detection |-> [phone_detected |-> FALSE, confidence |-> 90,
                                 detection_method |-> "basic"],
            object_detection |-> [objects |-> <<"person", "book", "cup">>,
                                  book_count |-> 1, laptop_count |-> 0]]
      [] name = "no_field" ->
           \* a face sub-result that carries no faces_detected field
           [face_detection |-> [confidence |-> 90],
            eye_tracking |-> [looking_away |-> FALSE, confidence |-> 80],
            phone_detection |-> [phone_detected |-> FALSE, confidence |-> 90,
                                 detection_method |-> "basic"]]
      [] name = "adapter_fail" ->
           \* detect_faces and detect_eyes raised inside: their except clauses
           \* (ai_detection_service.py lines 152-154 and 181-183)
           [face_detection |-> [faces_detected |-> 0, confidence |-> 0,
                                error |-> "cascade unavailable"],
            eye_tracking |-> [eyes_detected |-> 0, confidence |-> 0,
                              looking_away |-> TRUE,
                              error |-> "cascade unavailable"],
            phone_detection |-> [phone_detected |-> FALSE, confidence |-> 90,
                                 detection_method |-> "basic"]]
      [] name = "bad_objects" ->
           \* no face in the picture, and None where the object sub-result
           \* dict is expected
           [face_detection |-> [faces_detected |-> 0, confidence |-> 10,
                                detection_method |-> "basic"],
            eye_tracking |-> [looking_away |-> FALSE, confidence |-> 30],
            phone_detection |-> [phone_detected |-> FALSE, confidence |-> 90,
                                 detection_method |-> "basic"],
            object_detection |-> [none |-> TRUE]]
      [] OTHER -> [error |-> "cannot decode frame"]

\* sub-results that carry no reading of the signal
MissingDataNames == {"no_field", "adapter_fail"}

\* browser events a client sends; "scroll" is a type no branch recognises
BrowserEvents == {"tab_switch", "scroll"}

\* results of ai_detection_service.analyze_audio_data
AudioResultNames == {"speech", "silence"}
AudioResult(name) ==
    IF name = "speech" THEN [audio_detected |-> TRUE, confidence |-> 70]
    ELSE [audio_detected |-> FALSE, confidence |-> 70]

RECURSIVE TotalLen(_, _)
TotalLen(dict, keys) ==
    IF keys = {} THEN 0
    ELSE LET k == CHOOSE x \in keys : TRUE
         IN Len(dict[k]) + TotalLen(dict, keys \ {k})

\* awaits at which a handler really yields the event loop: receive_text.
\* "alert" (await alert_service.create_alert) is not one: create_alert never
\* awaits inside, and the notification raises before its first await.
SuspensionPointsWithAlert == {"recv", "alert"}
SuspensionPoints == {"recv"}

\* handler c may run: every other coroutine is parked at a suspending await
Scheduled(c) == \A d \in Conns \ {c} : hpc[d] \in SuspensionPoints

\* the start of a handler up to the for-loop over the detected violations
StartCall(c, type, input, current_time, batch) ==
    /\ hpc[c] = "recv"
    /\ Scheduled(c)
    /\ TotalLen(session_violations, DOMAIN session_violations) + Len(batch)
         <= MaxLedger
    /\ hpc' = [hpc EXCEPT ![c] = "loop"]
    /\ hmsg' = [hmsg EXCEPT ![c] = [type |-> type, input |-> input,
                                    current_time |-> current_time]]
    /\ hbatch' = [hbatch EXCEPT ![c] = batch]
    /\ hdone' = [hdone EXCEPT ![c] = 0]
    /\ halert' = [halert EXCEPT ![c] = <<>>]
    /\ UNCHANGED <<session_violations, score_history, now, ticks,
                   eval_log, violations_in, finalized, rt_vars, db_vars, svc_vars>>
    /\ result' = NoResult

\* handle_frame_data, lines 73-85 up to the loop of process_frame_data
HandleFrameData(c, name, current_time) ==
    /\ TotalLen(eval_log, SessionIds) < MaxEvals
    /\ StartCall(c, "frame_data", name, current_time,
                 DetectFrameViolations(ConnSession[c], AiResult(name), now))

\* handle_browser_event, lines 140-149 up to the loop of process_browser_event
HandleBrowserEvent(c, event_type) ==
    StartCall(c, "browser_event", event_type, 0,
              DetectBrowserViolations(ConnSession[c], [type |-> event_type], now))

\* handle_audio_data, lines 183-195 up to the loop of process_frame_data
HandleAudioData(c, name) ==
    StartCall(c, "audio_data", name, 0,
              DetectFrameViolations(ConnSession[c],
                                    [audio_data |-> AudioResult(name)], now))

\* _process_violation, lines 462-465: the violation enters the ledger
ProcessViolation(c) ==
    /\ hpc[c] = "loop"
    /\ Scheduled(c)
    /\ hdone[c] < Len(hbatch[c])
    /\ session_violations' =
           TrackViolation(session_violations, hbatch[c][hdone[c] + 1])
    /\ hpc' = [hpc EXCEPT ![c] = "alert"]
    /\ UNCHANGED <<score_history, now, ticks, eval_log, violations_in,
                   hmsg, hbatch, hdone, halert, finalized, rt_vars, db_vars, svc_vars>>
    /\ result' = NoResult

\* _process_violation, lines 467-483: alert_service.create_alert raises
\* ("alert_fail", caught at 482), or returns and the notification raises
\* ("notify_fail": WebSocketManager has no send_to_proctors, caught at 511)
AlertOutcomes == {"alert_fail", "notify_fail"}

AlertReturn(c, o) ==
    /\ hpc[c] = "alert"
    /\ Scheduled(c)
    /\ session_violations' =
           IF o = "alert_fail"
           THEN ProcessViolationExcept(session_violations, hbatch[c][hdone[c] + 1])
           ELSE session_violations
    /\ hdone' = [hdone EXCEPT ![c] = @ + 1]
    /\ halert' = [halert EXCEPT ![c] = Append(@, o)]
    /\ hpc' = [hpc EXCEPT ![c] = "loop"]
    /\ UNCHANGED <<score_history, now, ticks, eval_log, violations_in,
                   hmsg, hbatch, finalized, rt_vars, db_vars, svc_vars>>
    /\ result' = NoResult

\* frames with a sub-result no detector can read
MalformedNames == {"bad_objects"}

\* Python None in the place of a sub-result dict
NoneValue == [none |-> TRUE]

\* the keys process_frame_data reads, in its order (lines 139-170)
FrameKeys ==
    <<"face_detection", "eye_tracking", "audio_data", "phone_detection",
      "object_detection">>

\* the first detector that raises (its .get is applied to None), 0 if none
FirstRaise(frame_data) ==
    LET bad == {i \in 1..Len(FrameKeys) :
                   /\ FrameKeys[i] \in DOMAIN frame_data
                   /\ frame_data[FrameKeys[i]] = NoneValue}
    IN IF bad = {} THEN 0 ELSE CHOOSE i \in bad : \A j \in bad : i <= j

\* the list `violations` when the except clause of line 177 is reached: what
\* the detectors before the raising one have added
ViolationsAtExcept(session_id, frame_data, clock) ==
    LET seen == {FrameKeys[j] : j \in 1..(FirstRaise(frame_data) - 1)}
    IN DetectFrameViolations(session_id,
           [key \in DOMAIN frame_data \cap seen |-> frame_data[key]], clock)

\* process_frame_data, lines 137-180, when a detector raises: the loop of
\* line 173 is not reached and the list collected so far is returned
ExceptFrameData(c, name, current_time) ==
    LET batch == ViolationsAtExcept(ConnSession[c], AiResult(name), now)
    IN /\ hpc[c] = "recv"
       /\ Scheduled(c)
       /\ TotalLen(eval_log, SessionIds) < MaxEvals
       /\ FirstRaise(AiResult(name)) > 0
       /\ hpc' = [hpc EXCEPT ![c] = "loop"]
       /\ hmsg' = [hmsg EXCEPT ![c] = [type |-> "frame_data", input |-> name,
                                       current_time |-> current_time]]
       /\ hbatch' = [hbatch EXCEPT ![c] = batch]
       /\ hdone' = [hdone EXCEPT ![c] = Len(batch)]
       /\ halert' = [halert EXCEPT ![c] = <<>>]
       /\ UNCHANGED <<session_violations, score_history, now, ticks,
                      eval_log, violations_in, finalized, rt_vars, db_vars, svc_vars>>
       /\ result' = NoResult

\* what a RealTimeViolationService call returned
RtReturn(call, session_id, value) ==
    [call |-> call, session_id |-> session_id, value |-> value]

NoMessage == [type |-> "none", input |-> "", current_time |-> 0]

\* the handler returns to receive_text (line 37); its locals are gone
Return(c) ==
    /\ hpc' = [hpc EXCEPT ![c] = "recv"]
    /\ hmsg' = [hmsg EXCEPT ![c] = NoMessage]
    /\ hbatch' = [hbatch EXCEPT ![c] = <<>>]
    /\ hdone' = [hdone EXCEPT ![c] = 0]
    /\ halert' = [halert EXCEPT ![c] = <<>>]

\* an evaluation that stores the new score before it computes the trend
EvaluateStoreFirst(session_id, vs, current_time) ==
    LET r0 == TrustScoreResult(score_history, session_id, vs, current_time, now)
        h == StoreScoreHistory(score_history, session_id, r0.current_score)
    IN /\ result' = [r0 EXCEPT !.trend = Trend(h, session_id)]
       /\ score_history' = h
       /\ eval_log' = LogScore(eval_log, session_id, r0.current_score)

\* calculate_trust_score as a state change: result, history (lines 112-124)
Evaluate(session_id, vs, current_time) ==
    LET r == TrustScoreResult(score_history, session_id, vs, current_time, now)
    IN /\ result' = r
       /\ score_history' =
              StoreScoreHistory(score_history, session_id, r.current_score)
       /\ eval_log' = LogScore(eval_log, session_id, r.current_score)

\* handle_frame_data, lines 87-94: score over the whole ledger
FinishFrameData(c) ==
    /\ hpc[c] = "loop"
    /\ Scheduled(c)
    /\ hdone[c] = Len(hbatch[c])
    /\ hmsg[c].type = "frame_data"
    /\ Evaluate(ConnSession[c],
                GetSessionViolations(session_violations, ConnSession[c]),
                hmsg[c].current_time)
    /\ Return(c)
    /\ UNCHANGED <<session_violations, now, ticks, violations_in, finalized, rt_vars, db_vars, svc_vars>>

\* handle_browser_event 151-170, handle_audio_data 197-212: response only
FinishEvent(c) ==
    /\ hpc[c] = "loop"
    /\ Scheduled(c)
    /\ hdone[c] = Len(hbatch[c])
    /\ hmsg[c].type \in {"browser_event", "audio_data"}
    /\ Return(c)
    /\ UNCHANGED <<session_violations, score_history, now, ticks,
                   eval_log, violations_in, finalized, rt_vars, db_vars, svc_vars>>
    /\ result' = NoResult

\* message.get("exam_duration", 60)
exam_duration == 60

\* handle_session_status, lines 239-273; no await before the score is stored
HandleSessionStatus(c, status, current_time) ==
    /\ hpc[c] = "recv"
    /\ Scheduled(c)
    /\ TotalLen(eval_log, SessionIds) < MaxEvals
    /\ Evaluate(ConnSession[c],
                GetSessionViolations(session_violations, ConnSession[c]),
                IF status = "completed" THEN exam_duration ELSE current_time)
    /\ UNCHANGED <<session_violations, now, ticks, violations_in, hpc, hmsg,
                   hbatch, hdone, halert, rt_vars, db_vars, svc_vars>>

\* the wall clock advances while every coroutine is parked
Tick(d) ==
    /\ ticks < MaxTicks
    /\ \A c \in Conns : hpc[c] \in SuspensionPoints
    /\ now' = now + d
    /\ ticks' = ticks + 1
    /\ UNCHANGED <<session_violations, score_history, eval_log,
                   violations_in, hpc, hmsg, hbatch, hdone, halert, finalized, rt_vars, db_vars, svc_vars>>
    /\ result' = NoResult

(***************************************************************************)
(* Connection registry: core/websocket_manager.py                          *)
(***************************************************************************)
WsClientIds == {"u1", "u2"}
\* the three types of __init__ and one the registry does not know yet
WsClientTypes == {"admin", "student", "proctor", "observer"}

\* connections_by_type after __init__: an insertion-ordered dict
InitialConnectionsByType ==
    <<[client_type |-> "admin", clients |-> <<>>],
      [client_type |-> "student", clients |-> <<>>],
      [client_type |-> "proctor", clients |-> <<>>]>>

\* id in clients
InList(clients, id) == \E i \in 1..Len(clients) : clients[i] = id

\* clients.remove(id): the first occurrence
RemoveFirst(clients, id) ==
    LET k == CHOOSE i \in 1..Len(clients) :
                 clients[i] = id /\ \A j \in 1..(i - 1) : clients[j] # id
    IN SubSeq(clients, 1, k - 1) \o SubSeq(clients, k + 1, Len(clients))

\* connect, lines 38-43: a new key for an unknown type, append if absent
RegisterType(by_type, client_type, id) ==
    LET known == \E i \in 1..Len(by_type) : by_type[i].client_type = client_type
        d == IF known THEN by_type
             ELSE Append(by_type, [client_type |-> client_type, clients |-> <<>>])
    IN [i \in 1..Len(d) |->
           IF d[i].client_type = client_type /\ ~InList(d[i].clients, id)
           THEN [d[i] EXCEPT !.clients = Append(@, id)]
           ELSE d[i]]

\* disconnect, lines 54-57: remove from the first list that holds it, break
Unregister(by_type, id) ==
    LET holders == {i \in 1..Len(by_type) : InList(by_type[i].clients, id)}
    IN IF holders = {} THEN by_type
       ELSE LET k == CHOOSE i \in holders : \A j \in holders : i <= j
            IN [by_type EXCEPT ![k].clients = RemoveFirst(@, id)]

\* WebSocketManager.disconnect as a function of the manager's fields
Disconnected(m, id) ==
    IF id \in m.active_connections
    THEN [active_connections |-> m.active_connections \ {id},
          connections_by_type |-> Unregister(m.connections_by_type, id)]
    ELSE m

\* WebSocketManager.connect, lines 35-45, after websocket.accept() returned
WsConnect(client_type, id) ==
    /\ websocket_manager' =
           [active_connections |->
                websocket_manager.active_connections \cup {id},
            connections_by_type |->
                RegisterType(websocket_manager.connections_by_type,
                             client_type, id)]
    /\ UNCHANGED <<session_violations, score_history, result, now, ticks,
                   eval_log, violations_in, handler_vars, finalized, rt_vars,
                   db_vars, realtime_analytics_service,
                   rate_limiting_middleware>>

\* WebSocketManager.disconnect, lines 47-60
WsDisconnect(id) ==
    /\ websocket_manager' = Disconnected(websocket_manager, id)
    /\ UNCHANGED <<session_violations, score_history, result, now, ticks,
                   eval_log, violations_in, handler_vars, finalized, rt_vars,
                   db_vars, realtime_analytics_service,
                   rate_limiting_middleware>>

\* send_personal_message, lines 62-70: send_text returns (ok) or raises, and
\* the except clause disconnects the client
WsSendPersonalMessage(id, ok) ==
    /\ id \in websocket_manager.active_connections
    /\ websocket_manager' =
           IF ok THEN websocket_manager
           ELSE Disconnected(websocket_manager, id)
    /\ UNCHANGED <<session_violations, score_history, result, now, ticks,
                   eval_log, violations_in, handler_vars, finalized, rt_vars,
                   db_vars, realtime_analytics_service,
                   rate_limiting_middleware>>

WsInit ==
    websocket_manager = [active_connections |-> {},
                         connections_by_type |-> InitialConnectionsByType]

(***************************************************************************)
(* Real-time analytics: services/realtime_analytics_service.py             *)
(***************************************************************************)
AnClientIds == {"c1", "c2", "c3"}
AnTopics == {"overview", "violations"}
AnMessageTypes == {"subscribe", "unsubscribe", "heartbeat"}

\* update_task is None, or a task that is not done
NoTask == "None"
RunningTask == "running"

\* disconnect, lines 62-79, as a function of the service's fields
AnDisconnected(svc, id) ==
    LET active == svc.active_connections \ {id}
    IN [svc EXCEPT
          !.active_connections = active,
          !.client_subscriptions =
              [c \in DOMAIN svc.client_subscriptions \ {id} |->
                  svc.client_subscriptions[c]],
          !.update_task =
              IF active = {} /\ svc.update_task = RunningTask
              THEN NoTask ELSE svc.update_task]

\* send_message, lines 137-150, once send_json has returned (ok) or raised
AnSent(svc, id, ok) == IF ok THEN svc ELSE AnDisconnected(svc, id)

\* lines 58-60: start the update task if there is none
TaskStarted(svc) ==
    IF svc.update_task = NoTask
    THEN [svc EXCEPT !.update_task = RunningTask] ELSE svc

\* connect, lines 45-52: register the client and start sending the welcome
AnConnect(id) ==
    /\ realtime_analytics_service.pc[id] = "idle"
    /\ realtime_analytics_service' =
           [realtime_analytics_service EXCEPT
              !.active_connections = @ \cup {id},
              !.client_subscriptions =
                  [c \in DOMAIN @ \cup {id} |->
                      IF c = id THEN {"overview"} ELSE @[c]],
              !.pc[id] = "welcome"]
    /\ UNCHANGED <<session_violations, score_history, result, now, ticks,
                   eval_log, violations_in, handler_vars, finalized, rt_vars,
                   db_vars, websocket_manager, rate_limiting_middleware>>

\* connect, lines 52-60: the welcome message was sent or failed, then the
\* update task is started if none is running
AnWelcomeReturn(id, ok) ==
    /\ realtime_analytics_service.pc[id] = "welcome"
    /\ realtime_analytics_service' =
           [TaskStarted(AnSent(realtime_analytics_service, id, ok))
              EXCEPT !.pc[id] = "idle"]
    /\ UNCHANGED <<session_violations, score_history, result, now, ticks,
                   eval_log, violations_in, handler_vars, finalized, rt_vars,
                   db_vars, websocket_manager, rate_limiting_middleware>>

\* disconnect, lines 62-79, called by the endpoint of a connected client
AnDisconnect(id) ==
    /\ realtime_analytics_service.pc[id] = "idle"
    /\ realtime_analytics_service' =
           AnDisconnected(realtime_analytics_service, id)
    /\ UNCHANGED <<session_violations, score_history, result, now, ticks,
                   eval_log, violations_in, handler_vars, finalized, rt_vars,
                   db_vars, websocket_manager, rate_limiting_middleware>>

\* handle_message, lines 81-126: subscribe, unsubscribe or heartbeat, each
\* answered through send_message
AnHandleMessage(id, type, topic, ok) ==
    LET svc == realtime_analytics_service
        subs == svc.client_subscriptions
        updated ==
            IF id \in DOMAIN subs /\ type = "subscribe"
            THEN [svc EXCEPT !.client_subscriptions[id] = @ \cup {topic}]
            ELSE IF id \in DOMAIN subs /\ type = "unsubscribe"
            THEN [svc EXCEPT !.client_subscriptions[id] = @ \ {topic}]
            ELSE svc
    IN /\ svc.pc[id] = "idle"
       /\ realtime_analytics_service' =
              IF id \in svc.active_connections THEN AnSent(updated, id, ok)
              ELSE updated
       /\ UNCHANGED <<session_violations, score_history, result, now, ticks,
                      eval_log, violations_in, handler_vars, finalized,
                      rt_vars, db_vars, websocket_manager,
                      rate_limiting_middleware>>

\* periodic_updates, lines 196-212: one client's update of the running task;
\* every topic has data, a client without topics is skipped
PeriodicUpdate(id, ok) ==
    LET svc == realtime_analytics_service
    IN /\ svc.update_task = RunningTask
       /\ id \in DOMAIN svc.client_subscriptions
       /\ svc.client_subscriptions[id] # {}
       /\ id \in svc.active_connections
       /\ realtime_analytics_service' = AnSent(svc, id, ok)
       /\ UNCHANGED <<session_violations, score_history, result, now, ticks,
                      eval_log, violations_in, handler_vars, finalized,
                      rt_vars, db_vars, websocket_manager,
                      rate_limiting_middleware>>

AnInit ==
    realtime_analytics_service =
        [active_connections |-> {}, client_subscriptions |-> <<>>,
         update_task |-> NoTask, pc |-> [c \in AnClientIds |-> "idle"]]

(***************************************************************************)
(* Rate limiter: middleware/rate_limiting.py                               *)
(***************************************************************************)
calls == 2           \* RateLimitingMiddleware(app, calls=..., period=...)
period == 2          \* seconds
MaxRateTime == 4     \* time.time() goes up to this value
MaxInflight == 1     \* admitted requests of one client inside call_next

\* request.client.host, or "unknown" without a client address
ClientIps == {"10.0.0.1", "unknown"}

\* a purge that keeps a call made exactly `period` seconds ago
RECURSIVE PurgedStrict(_, _)
PurgedStrict(client_calls, current_time) ==
    IF client_calls # <<>> /\ client_calls[1] < current_time - period
    THEN PurgedStrict(Tail(client_calls), current_time)
    ELSE client_calls

\* lines 34-35: while client_calls and client_calls[0] <= current_time - period
RECURSIVE Purged(_, _)
Purged(client_calls, current_time) ==
    IF client_calls # <<>> /\ client_calls[1] <= current_time - period
    THEN Purged(Tail(client_calls), current_time)
    ELSE client_calls

NoEvent == [ip |-> "", status |-> "none", remaining |-> 0]

\* dispatch, lines 29-47: purge, then reject with HTTPException(429) or
\* record the call and pass the request on to call_next
Dispatch(ip) ==
    LET rl == rate_limiting_middleware
        client_calls == Purged(rl.clients[ip], now)
    IN /\ rate_limiting_middleware' =
              IF Len(client_calls) >= calls
              THEN [rl EXCEPT !.clients[ip] = client_calls,
                              !.event = [ip |-> ip, status |-> "429",
                                         remaining |-> 0]]
              ELSE [rl EXCEPT !.clients[ip] = Append(client_calls, now),
                              !.admitted[ip] = Append(@, now),
                              !.inflight[ip] = @ + 1,
                              !.event = [ip |-> ip, status |-> "admitted",
                                         remaining |-> 0]]
       /\ Len(client_calls) < calls => rl.inflight[ip] < MaxInflight
       /\ UNCHANGED <<session_violations, score_history, result, now, ticks,
                      eval_log, violations_in, handler_vars, finalized,
                      rt_vars, db_vars, websocket_manager,
                      realtime_analytics_service>>

\* dispatch, lines 49-56: call_next has returned, the headers are written
Respond(ip) ==
    LET rl == rate_limiting_middleware
    IN /\ rl.inflight[ip] > 0
       /\ rate_limiting_middleware' =
              [rl EXCEPT !.inflight[ip] = @ - 1,
                         !.event = [ip |-> ip, status |-> "200",
                                    remaining |-> calls - Len(rl.clients[ip])]]
       /\ UNCHANGED <<session_violations, score_history, result, now, ticks,
                      eval_log, violations_in, handler_vars, finalized,
                      rt_vars, db_vars, websocket_manager,
                      realtime_analytics_service>>

\* time.time() moves on by a second
RateTick ==
    /\ now < MaxRateTime
    /\ now' = now + 1
    /\ UNCHANGED <<session_violations, score_history, result, ticks,
                   eval_log, violations_in, handler_vars, finalized,
                   rt_vars, db_vars, svc_vars>>

\* clients: defaultdict(deque); admitted: every recorded call, never purged;
\* event: what the middleware did last
RateInit ==
    rate_limiting_middleware =
        [clients |-> [ip \in ClientIps |-> <<>>],
         admitted |-> [ip \in ClientIps |-> <<>>],
         inflight |-> [ip \in ClientIps |-> 0],
         event |-> NoEvent]

SvcInit ==
    /\ WsInit
    /\ AnInit
    /\ RateInit

Init ==
    /\ session_violations = <<>>
    /\ score_history = <<>>
    /\ result = NoResult
    /\ now = 0
    /\ ticks = 0
    /\ eval_log = [s \in SessionIds |-> <<>>]
    /\ violations_in = <<>>
    /\ hpc = [c \in Conns |-> "recv"]
    /\ hmsg = [c \in Conns |-> NoMessage]
    /\ hbatch = [c \in Conns |-> <<>>]
    /\ hdone = [c \in Conns |-> 0]
    /\ halert = [c \in Conns |-> <<>>]
    /\ finalized = {}
    /\ active_sessions = <<>>
    /\ websocket_connections = <<>>
    /\ rt_return = RtReturn("none", 0, "none")
    /\ exam_session_table = <<>>
    /\ alert_table = <<>>
    /\ db_return = RtReturn("none", 0, "none")
    /\ SvcInit

Next ==
    \/ \E c \in Conns, name \in AiResultNames, ct \in CurrentTimes :
          HandleFrameData(c, name, ct)
    \/ \E c \in Conns, e \in BrowserEvents : HandleBrowserEvent(c, e)
    \/ \E c \in Conns, a \in AudioResultNames : HandleAudioData(c, a)
    \/ \E c \in Conns : ProcessViolation(c)
    \/ \E c \in Conns, o \in AlertOutcomes : AlertReturn(c, o)
    \/ \E c \in Conns : FinishFrameData(c)
    \/ \E c \in Conns : FinishEvent(c)
    \/ \E c \in Conns, st \in {"completed", "in_progress"}, ct \in CurrentTimes :
          HandleSessionStatus(c, st, ct) /\ UNCHANGED finalized
    \/ \E d \in TickSteps : Tick(d)

Spec == Init /\ [][Next]_vars

\* ---- RealTimeViolationService (services/realtime_violation_service.py) ----
\* The coordinator owns a ViolationDetectionService and a TrustScoreService of
\* its own (lines 29-30).  Every call it makes on them is to a method they do
\* not define, so those two objects never change and are not represented;
\* session_violations and score_history are the module-level services the
\* socket handlers use, which live in the same process.

UserIds == {7, 8}
ExamId == 1
NoTime == -1         \* the record has no "end_time" key

Put(d, k, v) == [x \in DOMAIN d \cup {k} |-> IF x = k THEN v ELSE d[x]]

\* start_session: the record and the socket are stored (lines 39-49), then
\* trust_score_service.initialize_session_score, a method TrustScoreService
\* does not have, raises; the except at line 71 returns False
StartSession(session_id, user_id) ==
    /\ \A c \in Conns : hpc[c] \in SuspensionPoints
    /\ active_sessions' =
           Put(active_sessions, session_id,
               [user_id |-> user_id, exam_id |-> ExamId, start_time |-> now,
                violations |-> <<>>, trust_score |-> 100, status |-> "active",
                end_time |-> NoTime])
    /\ websocket_connections' = Put(websocket_connections, session_id, "ws")
    /\ rt_return' = RtReturn("start_session", session_id, "False")
    /\ UNCHANGED <<session_violations, score_history, now, ticks, eval_log,
                   violations_in, handler_vars, finalized, db_vars, svc_vars>>
    /\ result' = NoResult

\* process_frame_data: ValueError for an id that is not registered (line 79);
\* for a registered one violation_detector.detect_violations, a method
\* ViolationDetectionService does not have, raises (line 85); both are caught
\* at line 117 and an error dict is returned
RtProcessFrameData(session_id, name) ==
    /\ \A c \in Conns : hpc[c] \in SuspensionPoints
    /\ rt_return' = RtReturn("process_frame_data", session_id,
                             IF session_id \in DOMAIN active_sessions
                             THEN "error: no detect_violations"
                             ELSE "error: not found")
    /\ UNCHANGED <<session_violations, score_history, now, ticks, eval_log,
                   violations_in, handler_vars, finalized, active_sessions,
                   websocket_connections, db_vars, svc_vars>>
    /\ result' = NoResult

\* end_session: ValueError for an id that is not registered (line 190);
\* otherwise status and end_time are written (lines 193-194), then
\* trust_score_service.finalize_session_score, a method TrustScoreService
\* does not have, raises (line 199): the clean-up at lines 221-224 is never
\* reached and the except at line 229 returns an error dict
EndSession(session_id) ==
    /\ \A c \in Conns : hpc[c] \in SuspensionPoints
    /\ active_sessions' =
           IF session_id \in DOMAIN active_sessions
           THEN [active_sessions EXCEPT ![session_id] =
                     [@ EXCEPT !.status = "completed", !.end_time = now]]
           ELSE active_sessions
    /\ rt_return' = RtReturn("end_session", session_id,
                             IF session_id \in DOMAIN active_sessions
                             THEN "error: no finalize_session_score"
                             ELSE "error: not found")
    /\ UNCHANGED <<session_violations, score_history, now, ticks, eval_log,
                   violations_in, handler_vars, finalized,
                   websocket_connections, db_vars, svc_vars>>
    /\ result' = NoResult

\* the coordinator and one socket handler per session in the same process
RtConns == {1, 3}
RtFrames == {"noface"}

NextRt ==
    \/ \E s \in SessionIds, u \in UserIds : StartSession(s, u)
    \/ \E s \in SessionIds, name \in RtFrames : RtProcessFrameData(s, name)
    \/ \E s \in SessionIds : EndSession(s)
    \/ \E c \in RtConns, name \in RtFrames, ct \in CurrentTimes :
          HandleFrameData(c, name, ct)
    \/ \E c \in RtConns : ProcessViolation(c)
    \/ \E c \in RtConns, o \in AlertOutcomes : AlertReturn(c, o)
    \/ \E c \in RtConns : FinishFrameData(c)
    \/ \E c \in RtConns, ct \in CurrentTimes :
          /\ HandleSessionStatus(c, "completed", ct)
          /\ finalized' = finalized \cup {ConnSession[c]}
    \/ \E d \in TickSteps : Tick(d)

SpecRt == Init /\ [][NextRt]_vars

\* ---- calculate_trust_score as a function of its arguments (SpecScore) ----

MaxLen == 6          \* length of the violation list passed in
MaxScoreEvals == 1   \* calls of calculate_trust_score per run
ScoreClock == 1000   \* datetime.now(timezone.utc) during the calls, seconds
ScoreTimes == {0, 30}

\* events as the classifier builds them: recorded at time 0 or just now
ScoreEvents ==
    {ViolationEvent(t[1], t[2], 1, ts) :
        t \in {<<"PHONE_DETECTED", 95>>, <<"RIGHT_CLICK", 100>>,
               <<"LOOKING_AWAY", 80>>},
        ts \in {0, ScoreClock}}

\* a ledger is appended to in time order
ScoreInputs ==
    {vs \in UNION {[1..n -> ScoreEvents] : n \in 0..MaxLen} :
        \A i \in 2..Len(vs) : vs[i-1].timestamp <= vs[i].timestamp}

InitScore ==
    /\ violations_in \in ScoreInputs
    /\ now = ScoreClock
    /\ session_violations = <<>>
    /\ score_history = <<>>
    /\ result = NoResult
    /\ ticks = 0
    /\ eval_log = [s \in SessionIds |-> <<>>]
    /\ hpc = [c \in Conns |-> "recv"]
    /\ hmsg = [c \in Conns |-> NoMessage]
    /\ hbatch = [c \in Conns |-> <<>>]
    /\ hdone = [c \in Conns |-> 0]
    /\ halert = [c \in Conns |-> <<>>]
    /\ finalized = {}
    /\ active_sessions = <<>>
    /\ websocket_connections = <<>>
    /\ rt_return = RtReturn("none", 0, "none")
    /\ exam_session_table = <<>>
    /\ alert_table = <<>>
    /\ db_return = RtReturn("none", 0, "none")
    /\ SvcInit

\* calculate_trust_score(session_id, violations, current_time), lines 69-124
CalculateTrustScore(session_id, current_time) ==
    /\ TotalLen(eval_log, SessionIds) < MaxScoreEvals
    /\ Evaluate(session_id, violations_in, current_time)
    /\ UNCHANGED <<session_violations, now, ticks, violations_in,
                   handler_vars, finalized, rt_vars, db_vars, svc_vars>>

NextScore ==
    \E s \in SessionIds, ct \in ScoreTimes : CalculateTrustScore(s, ct)

SpecScore == InitScore /\ [][NextScore]_vars

\* C1: every score calculate_trust_score returns or stores lies in [0, 100].
C1_ScoreInRange ==
    /\ result.current_score \in 0..(100 * Unit)
    /\ \A s \in DOMAIN score_history : \A i \in 1..Len(score_history[s]) :
           score_history[s][i] \in 0..(100 * Unit)

\* penalties above base plus bonuses: the lower clamp produced the 0
C1_Witness ==
    /\ result.category = "critical"
    /\ result.current_score = 0
    /\ result.factors.violation_penalty + result.factors.time_penalty
         + result.factors.behavior_pattern_penalty
         > base_score + result.factors.consistency_bonus
             + result.factors.recovery_bonus

\* bonuses above penalties: the upper clamp produced the 100
C1_UpperClampReached ==
    /\ result.category = "excellent"
    /\ result.factors.violation_penalty + result.factors.time_penalty
         + result.factors.behavior_pattern_penalty
         < result.factors.consistency_bonus + result.factors.recovery_bonus

\* ---- a violation list built by appends, then evaluated (SpecAppend) ----

MaxAppend == 8       \* length the violation list grows to
AppendTimes == {30}  \* current_time_minutes of the calls

\* events as the classifier builds them: recorded at time 0 or just now
AppendEvents ==
    {ViolationEvent(t, 100, 1, ts) :
        t \in {"FACE_NOT_DETECTED", "RIGHT_CLICK"}, ts \in {0, ScoreClock}}

InitAppend ==
    /\ violations_in = <<>>
    /\ InitScore

\* violations.append(violation): the caller's list before it is passed in
AppendViolation(e) ==
    /\ Len(violations_in) < MaxAppend
    /\ TotalLen(eval_log, SessionIds) = 0
    /\ IF violations_in = <<>> THEN TRUE
       ELSE violations_in[Len(violations_in)].timestamp <= e.timestamp
    /\ violations_in' = Append(violations_in, e)
    /\ UNCHANGED <<session_violations, score_history, result, now, ticks,
                   eval_log, handler_vars, finalized, rt_vars, db_vars, svc_vars>>

NextAppend ==
    \/ \E e \in AppendEvents : AppendViolation(e)
    \/ \E s \in SessionIds, ct \in AppendTimes : CalculateTrustScore(s, ct)

SpecAppend == InitAppend /\ [][NextAppend]_vars

\* the list without its last event
WithoutLast(vs) == SubSeq(vs, 1, Len(vs) - 1)

\* k of the i-th event: how many events of its type stand at or before it
Ordinal(vs, i) ==
    Cardinality({j \in 1..i : vs[j].violation_type = vs[i].violation_type})

\* min(2.0, 1.0 + 0.2 * (k - 1)) in tenths, written out by cases
Multiplier(k) == IF k >= 6 THEN 20 ELSE 10 + 2 * (k - 1)

RECURSIVE ExpectedPenalty(_, _)
ExpectedPenalty(vs, i) ==
    IF i = 0 THEN 0
    ELSE ExpectedPenalty(vs, i - 1)
           + Weight(vs[i].violation_type) * SeverityMultiplier(vs[i].severity)
               * vs[i].confidence * Multiplier(Ordinal(vs, i))

\* C18: the k-th event of a type, counting only events of that type in list
\* order, is multiplied by min(2.0, 1.0 + 0.2 * (k - 1)); the penalty returned
\* is the sum of these terms (capped at 80), and two FACE_NOT_DETECTED events
\* at HIGH and confidence 1.0 give 22.5 + 27 points.
C18_FrequencyMultiplier ==
    /\ \A i \in 1..Len(violations_in) :
           EventPenalty(violations_in, i)
             = Weight(violations_in[i].violation_type)
                 * SeverityMultiplier(violations_in[i].severity)
                 * violations_in[i].confidence
                 * Multiplier(Ordinal(violations_in, i))
    /\ result.session_id # 0 =>
           /\ result.factors.violation_penalty
                = Min(80 * Unit,
                      ExpectedPenalty(violations_in, Len(violations_in)))
           /\ (/\ Len(violations_in) = 2
               /\ \A i \in 1..2 :
                      violations_in[i].violation_type = "FACE_NOT_DETECTED")
                => result.factors.violation_penalty = 225000 + 270000

\* a seventh event of one type, another type in between, penalty below the cap
C18_Witness ==
    /\ result.session_id # 0
    /\ result.factors.violation_penalty < 80 * Unit
    /\ \E i \in 1..Len(violations_in) :
           /\ Ordinal(violations_in, i) >= 7
           /\ \E j \in 2..(i - 1) :
                  /\ violations_in[j].violation_type
                       # violations_in[i].violation_type
                  /\ violations_in[j-1].violation_type
                       = violations_in[i].violation_type

\* C19: the penalty of a list is never below the penalty of the list without
\* its last event, and never above 80 points.
C19_PenaltyMonotoneCapped ==
    result.session_id # 0 =>
        /\ result.factors.violation_penalty <= 80 * Unit
        /\ violations_in # <<>> =>
               result.factors.violation_penalty
                 >= ViolationPenalty(WithoutLast(violations_in))

\* the cap acts: the sum is above 80 points with and without the last event
C19_Witness ==
    /\ result.session_id # 0
    /\ violations_in # <<>>
    /\ result.factors.violation_penalty = 80 * Unit
    /\ TotalPenalty(violations_in, Len(violations_in) - 1) > 80 * Unit

StatedConsistencyBonus(n, current_time) ==
    IF current_time < 10 THEN 0
    ELSE IF n * 10 < Max(1, current_time) THEN 5 * Unit
    ELSE IF n * 5 < Max(1, current_time) THEN 2 * Unit
    ELSE 0

\* C22 (as the spec states it): the consistency bonus depends only on
\* current_time_minutes and the number of violations: from minute 10 on it is
\* 5 below a rate of 0.1, 2 below 0.2, else 0, also for an empty list.
C22_ConsistencyBonusAsStated ==
    \A ct \in AppendTimes :
        result.session_id # 0 =>
            result.factors.consistency_bonus
              = StatedConsistencyBonus(Len(violations_in), ct)

\* number of consecutive pairs of the time-sorted list with rising severity
EscalatingPairs(vs) ==
    LET sv == SortByTime(vs)
    IN Cardinality({i \in 2..Len(sv) :
           SeverityValue(sv[i].severity) > SeverityValue(sv[i-1].severity)})

\* C23 (as the spec states it): with at least 3 violations the +5 escalating
\* component is part of the behaviour-pattern penalty exactly when more than
\* half of the n-1 consecutive pairs show strictly increasing severity.
C23_EscalatingOverPairs ==
    (result.session_id # 0 /\ Len(violations_in) >= 3) =>
        (result.factors.behavior_pattern_penalty \in {5 * Unit, 15 * Unit}
           <=> 2 * EscalatingPairs(violations_in) > Len(violations_in) - 1)

\* ---- evaluations of one session with changing arguments (SpecTrend) ----

MaxTrendEvals == 5   \* calls of calculate_trust_score per run

\* the lists passed in: none, or one TAB_SWITCH recorded at time 0
TrendInputs == {<<>>, <<ViolationEvent("TAB_SWITCH", 100, 1, 0)>>}

\* calculate_trust_score(session_id, violations, current_time), lines 69-124
TrendEvaluate(session_id, vs, current_time) ==
    /\ TotalLen(eval_log, SessionIds) < MaxTrendEvals
    /\ violations_in' = vs
    /\ Evaluate(session_id, vs, current_time)
    /\ UNCHANGED <<session_violations, now, ticks, handler_vars, finalized,
                   rt_vars, db_vars, svc_vars>>

NextTrend ==
    \E s \in SessionIds, vs \in TrendInputs, ct \in ScoreTimes :
        TrendEvaluate(s, vs, ct)

SpecTrend == Init /\ [][NextTrend]_vars

\* the last up-to-3 entries of a list of scores
LastThree(scores) == SubSeq(scores, Max(1, Len(scores) - 2), Len(scores))

\* the trend as stated: the average consecutive delta is (last - first) / pairs
StatedTrend(scores) ==
    IF Len(scores) < 2 THEN "stable"
    ELSE IF scores[Len(scores)] - scores[1] > 2 * Unit * (Len(scores) - 1)
         THEN "improving"
    ELSE IF scores[Len(scores)] - scores[1] < -(2 * Unit * (Len(scores) - 1))
         THEN "declining"
    ELSE "stable"

\* C24: the trend an evaluation returns is derived from the up-to-3 scores
\* stored for the session before it, the score being computed not included:
\* stable with fewer than 2 stored scores, improving above an average delta of
\* +2, declining below -2, else stable.
C24_TrendFromStoredScores ==
    [][\A s \in SessionIds :
          eval_log'[s] # eval_log[s] =>
              result'.trend = StatedTrend(LastThree(eval_log[s]))]_vars

\* improving over the stored scores although the new score falls again
C24_Witness ==
    /\ result.session_id # 0
    /\ result.trend = "improving"
    /\ Len(eval_log[result.session_id]) >= 3
    /\ result.current_score
         < eval_log[result.session_id][Len(eval_log[result.session_id]) - 1]

\* C25: an evaluation of an empty violation list returns score 100, category
\* EXCELLENT and all penalties and bonuses 0, whatever current_time and the
\* scores stored before.
C25_EmptyListPerfect ==
    (result.session_id # 0 /\ violations_in = <<>>) =>
        /\ result.current_score = 100 * Unit
        /\ result.category = "excellent"
        /\ result.factors = [violation_penalty |-> 0, consistency_bonus |-> 0,
                             time_penalty |-> 0,
                             behavior_pattern_penalty |-> 0,
                             recovery_bonus |-> 0]

\* an empty list evaluated after lower scores were stored for the session
C25_Witness ==
    /\ result.session_id # 0
    /\ violations_in = <<>>
    /\ result.violations_count = 0
    /\ Len(eval_log[result.session_id]) >= 3
    /\ eval_log[result.session_id][1] < 100 * Unit
    /\ result.trend # "stable"

\* ---- the worked scenario of two fresh violations (SpecScenario) ----

MaxScenario == 3     \* length of the violation list passed in

\* FACE_NOT_DETECTED at confidence 0.9 and TAB_SWITCH at confidence 1.0
ScenarioEvents ==
    {ViolationEvent(t[1], t[2], 1, ts) :
        t \in {<<"FACE_NOT_DETECTED", 90>>, <<"TAB_SWITCH", 100>>},
        ts \in {0, ScoreClock}}

ScenarioInputs ==
    {vs \in UNION {[1..n -> ScenarioEvents] : n \in 0..MaxScenario} :
        \A i \in 2..Len(vs) : vs[i-1].timestamp <= vs[i].timestamp}

InitScenario ==
    /\ violations_in \in ScenarioInputs
    /\ now = ScoreClock
    /\ session_violations = <<>>
    /\ score_history = <<>>
    /\ result = NoResult
    /\ ticks = 0
    /\ eval_log = [s \in SessionIds |-> <<>>]
    /\ hpc = [c \in Conns |-> "recv"]
    /\ hmsg = [c \in Conns |-> NoMessage]
    /\ hbatch = [c \in Conns |-> <<>>]
    /\ hdone = [c \in Conns |-> 0]
    /\ halert = [c \in Conns |-> <<>>]
    /\ finalized = {}
    /\ active_sessions = <<>>
    /\ websocket_connections = <<>>
    /\ rt_return = RtReturn("none", 0, "none")
    /\ exam_session_table = <<>>
    /\ alert_table = <<>>
    /\ db_return = RtReturn("none", 0, "none")
    /\ SvcInit

SpecScenario == InitScenario /\ [][NextScore]_vars

\* the two violations of the scenario, both timestamped now
ScenarioList ==
    <<ViolationEvent("FACE_NOT_DETECTED", 90, 1, now),
      ViolationEvent("TAB_SWITCH", 100, 1, now)>>

\* the scenario was evaluated at current_time = 30
ScenarioEvaluated ==
    /\ result.session_id # 0
    /\ violations_in = ScenarioList
    /\ result.factors = Factors(violations_in, 30, now)

\* C21 (as the spec states it): the scenario has violation penalty 50.25,
\* time penalty 4 and final score 45.75, category POOR.
C21_ScenarioAsStated ==
    ScenarioEvaluated =>
        /\ result.factors.violation_penalty = 502500
        /\ result.factors.time_penalty = 40000
        /\ result.current_score = 457500
        /\ result.category = "poor"

\* C21 (amended): the scenario has violation penalty 50.25, time penalty 4,
\* consistency bonus 5 (2 violations in 30 minutes is a rate below 0.1) and
\* final score 100 - 50.25 - 4 + 5 = 50.75, category POOR.
C21_ScenarioScore ==
    ScenarioEvaluated =>
        /\ result.factors.violation_penalty = 502500
        /\ result.factors.time_penalty = 40000
        /\ result.factors.consistency_bonus = 50000
        /\ result.factors.behavior_pattern_penalty = 0
        /\ result.factors.recovery_bonus = 0
        /\ result.current_score = 507500
        /\ result.category = "poor"

C21_Witness ==
    /\ ScenarioEvaluated
    /\ result.violations_count = 2
    /\ result.current_score = 507500

\* ---- many evaluations of one growing ledger (SpecHistory) ----

HistEvals == 22      \* calls of calculate_trust_score per run
MaxHistInput == 1    \* length the violation list grows to

\* one more violation is in the list passed to the next call
HistAppend ==
    /\ Len(violations_in) < MaxHistInput
    /\ violations_in' =
           Append(violations_in, ViolationEvent("TAB_SWITCH", 100, 1, now))
    /\ UNCHANGED <<session_violations, score_history, now, ticks, eval_log,
                   handler_vars, finalized, rt_vars, db_vars, svc_vars>>
    /\ result' = NoResult

HistEvaluate(session_id, current_time) ==
    /\ TotalLen(eval_log, SessionIds) < HistEvals
    /\ Evaluate(session_id, violations_in, current_time)
    /\ UNCHANGED <<session_violations, now, ticks, violations_in,
                   handler_vars, finalized, rt_vars, db_vars, svc_vars>>

NextHistory ==
    \/ HistAppend
    \/ \E s \in SessionIds, ct \in CurrentTimes : HistEvaluate(s, ct)

SpecHistory == Init /\ [][NextHistory]_vars

\* C2: the score history of a session never holds more than 20 scores, and
\* after n evaluations it is the last min(n, 20) computed scores, in order.
C2_HistoryLastTwenty ==
    \A s \in SessionIds :
        LET h == Get(score_history, s, <<>>)
            n == Len(eval_log[s])
        IN /\ Len(h) <= 20
           /\ Len(h) = Min(n, 20)
           /\ h = SubSeq(eval_log[s], n - Len(h) + 1, n)

\* 22 evaluations of a session whose score changed on the way: the two oldest
\* scores are gone
C2_Witness ==
    \E s \in SessionIds :
        /\ Len(eval_log[s]) = 22
        /\ Len(score_history[s]) = 20
        /\ eval_log[s][1] # eval_log[s][3]
        /\ score_history[s][1] = eval_log[s][3]

\* ---- exam_session_service, alert_service.create and ProctorService ----
\* (services/exam_session_service.py, services/alert_service.py,
\* ai/proctoring_service.py).  Scores and impacts are in hundredths of 1.0.

MaxExamRows == 2     \* ExamSession rows created per run
MaxAlertRows == 2    \* Alert rows created per run
NoScore == -1        \* final_trust_score is NULL

\* ids a caller may pass: those of the rows and one that no row has
ExamSessionIds == 1..(MaxExamRows + 1)

\* exam_session_service.get: the row or None
SessionExists(id) == id \in DOMAIN exam_session_table

\* session.alerts: the Alert rows of the session
SessionAlerts(table, id) ==
    SelectSeq(table, LAMBDA a : a.exam_session_id = id)

RECURSIVE SumImpact(_, _)
SumImpact(alerts, i) ==
    IF i = 0 THEN 0 ELSE SumImpact(alerts, i - 1) + alerts[i].trust_score_impact

\* a final score that ignores the alerts
FinalTrustScoreNoAlerts(alerts) == 100

\* end_session, lines 62-67
FinalTrustScore(alerts) ==
    IF alerts # <<>> THEN Max(0, 100 - SumImpact(alerts, Len(alerts))) ELSE 100

\* exam_session_service.create, lines 42-51
ExamCreate ==
    /\ Len(exam_session_table) < MaxExamRows
    /\ exam_session_table' =
           Append(exam_session_table,
                  [is_completed |-> FALSE, end_time |-> NoTime,
                   final_trust_score |-> NoScore])
    /\ db_return' = RtReturn("none", 0, "none")
    /\ UNCHANGED <<session_violations, score_history, now, ticks, eval_log,
                   violations_in, handler_vars, finalized, rt_vars, alert_table, svc_vars>>
    /\ result' = NoResult

\* exam_session_service.end_session, lines 54-73
ExamEndSession(id) ==
    /\ exam_session_table' =
           IF SessionExists(id) /\ ~exam_session_table[id].is_completed
           THEN [exam_session_table EXCEPT ![id] =
                    [is_completed |-> TRUE, end_time |-> now,
                     final_trust_score |->
                         FinalTrustScore(SessionAlerts(alert_table, id))]]
           ELSE exam_session_table
    /\ db_return' = RtReturn("none", 0, "none")
    /\ UNCHANGED <<session_violations, score_history, now, ticks, eval_log,
                   violations_in, handler_vars, finalized, rt_vars, alert_table, svc_vars>>
    /\ result' = NoResult

\* exam_session_service.update_trust_score, lines 76-96
UpdateTrustScore(id, trust_score) ==
    /\ exam_session_table' =
           IF SessionExists(id)
           THEN [exam_session_table EXCEPT
                    ![id].final_trust_score = Max(0, Min(100, trust_score))]
           ELSE exam_session_table
    /\ db_return' = RtReturn("none", 0, "none")
    /\ UNCHANGED <<session_violations, score_history, now, ticks, eval_log,
                   violations_in, handler_vars, finalized, rt_vars, alert_table, svc_vars>>
    /\ result' = NoResult

\* the caller of the test: max(0, 1.0 - sum of the impacts of the alerts)
ExpectedScore(id) ==
    Max(0, 100 - SumImpact(SessionAlerts(alert_table, id),
                           Len(SessionAlerts(alert_table, id))))

\* a session that is checked for existence only
SessionUsableIfExists(id) == SessionExists(id)

\* process_frame line 43, process_audio line 217:
\* not (not session or session.is_completed)
SessionUsable(id) == SessionExists(id) /\ ~exam_session_table[id].is_completed

AlertRow(id, type, impact) ==
    [exam_session_id |-> id, alert_type |-> type, trust_score_impact |-> impact]

\* what the cascades see in the frame: one face with both eyes, no face, two
\* faces with their eyes ("away": one face with fewer than two eyes)
FaceKinds == {"one", "none", "many"}

\* whether the message carries audio and _simulate_audio_detection hits
AudioHits == {FALSE}

\* the alerts list of process_frame, lines 47-90, for an exam that enables
\* every detection
FrameAlerts(id, face, tab_active, audio_hit) ==
    (IF face = "none" THEN <<AlertRow(id, "FACE_NOT_DETECTED", 10)>>
     ELSE IF face = "many" THEN <<AlertRow(id, "MULTIPLE_FACES", 20)>>
     ELSE IF face = "away" THEN <<AlertRow(id, "LOOKING_AWAY", 5)>>
     ELSE <<>>)
    \o (IF ~tab_active THEN <<AlertRow(id, "TAB_SWITCH", 5)>> ELSE <<>>)
    \o (IF audio_hit THEN <<AlertRow(id, "AUDIO_DETECTED", 3)>> ELSE <<>>)

\* ProctorService.process_frame, lines 30-123
ProctorProcessFrame(id, face, tab_active, audio_hit) ==
    LET alerts == FrameAlerts(id, face, tab_active, audio_hit)
    IN /\ Len(alert_table) + Len(alerts) <= MaxAlertRows
       /\ alert_table' =
              IF SessionUsable(id) THEN alert_table \o alerts ELSE alert_table
       /\ db_return' = RtReturn("process_frame", id,
                                IF SessionUsable(id) THEN "ok" ELSE "error")
       /\ UNCHANGED <<session_violations, score_history, now, ticks, eval_log,
                      violations_in, handler_vars, finalized, rt_vars,
                      exam_session_table, svc_vars>>
       /\ result' = NoResult

\* ProctorService.process_audio, lines 210-261; speech: both random draws
\* (lines 232 and 238) came out as detections
ProctorProcessAudio(id, speech) ==
    /\ Len(alert_table) < MaxAlertRows
    /\ alert_table' =
           IF SessionUsable(id) /\ speech
           THEN Append(alert_table, AlertRow(id, "AUDIO_DETECTED", 8))
           ELSE alert_table
    /\ db_return' = RtReturn("process_audio", id,
                             IF SessionUsable(id) THEN "ok" ELSE "error")
    /\ UNCHANGED <<session_violations, score_history, now, ticks, eval_log,
                   violations_in, handler_vars, finalized, rt_vars,
                   exam_session_table, svc_vars>>
    /\ result' = NoResult

\* a trust score a caller passes that lies outside [0, 1]
OtherTrustScores == {150}

NextExam ==
    \/ ExamCreate
    \/ \E id \in ExamSessionIds : ExamEndSession(id)
    \/ \E id \in ExamSessionIds :
          \E ts \in {ExpectedScore(id)} \cup OtherTrustScores :
              UpdateTrustScore(id, ts)
    \/ \E id \in ExamSessionIds, face \in FaceKinds, tab_active \in BOOLEAN,
          audio_hit \in AudioHits :
          ProctorProcessFrame(id, face, tab_active, audio_hit)
    \/ \E id \in ExamSessionIds, speech \in BOOLEAN :
          ProctorProcessAudio(id, speech)

SpecExam == Init /\ [][NextExam]_vars

\* C27 (as the spec states it): once end_session has completed a session, its
\* is_completed flag, end_time and final_trust_score never change again.
C27_CompletedFrozen ==
    [][\A id \in DOMAIN exam_session_table :
          exam_session_table[id].is_completed
              => exam_session_table'[id] = exam_session_table[id]]_vars

\* C15: end_session on a session that is not completed marks it completed
\* and sets final_trust_score to max(0, 1 - sum of the impacts of its
\* alerts), 1.0 without alerts; a score that update_trust_score stored
\* before from max(0, 1 - sum) of the same alerts is left as it is.
C15_EndSessionScore ==
    [][\A id \in ExamSessionIds :
          (SessionUsable(id) /\ ExamEndSession(id))
              => /\ exam_session_table'[id].is_completed
                 /\ exam_session_table'[id].final_trust_score
                      = ExpectedScore(id)
                 /\ exam_session_table[id].final_trust_score
                      = Max(0, Min(100, ExpectedScore(id)))
                        => exam_session_table'[id].final_trust_score
                             = exam_session_table[id].final_trust_score]_vars

\* as in test_trust_score_calculation, with two alerts: impacts 0.1 and 0.2,
\* update_trust_score(0.7), then the session ended with final_trust_score 0.7
C15_Witness ==
    /\ SessionExists(1)
    /\ exam_session_table[1].is_completed
    /\ exam_session_table[1].final_trust_score = 70
    /\ Len(SessionAlerts(alert_table, 1)) = 2

\* C16: process_frame and process_audio for a session that does not exist or
\* is completed return an error result and persist no alert.
C16_NoAlertForClosedSession ==
    [][\A id \in ExamSessionIds :
          (/\ ~(SessionExists(id) /\ ~exam_session_table[id].is_completed)
           /\ db_return'.call \in {"process_frame", "process_audio"}
           /\ db_return'.session_id = id
           /\ (db_return' # db_return \/ alert_table' # alert_table))
              => /\ db_return'.value = "error"
                 /\ alert_table' = alert_table]_vars

\* a frame without a face arrived for a completed session that has an alert
\* from before: the call returned the error and the alerts are as they were
C16_Witness ==
    /\ SessionExists(1)
    /\ exam_session_table[1].is_completed
    /\ db_return = RtReturn("process_frame", 1, "error")
    /\ Len(SessionAlerts(alert_table, 1)) = 1
    /\ Len(alert_table) = 1

\* ---- the classifier on every kind of detector result (SpecDetect) ----

NextDetect ==
    \/ \E c \in RtConns, name \in AiResultNames \cup MissingDataNames,
          ct \in CurrentTimes : HandleFrameData(c, name, ct)
    \/ \E c \in RtConns : ProcessViolation(c)
    \/ \E c \in RtConns, o \in AlertOutcomes : AlertReturn(c, o)
    \/ \E c \in RtConns : FinishFrameData(c)
    \/ \E c \in RtConns, name \in MalformedNames, ct \in CurrentTimes :
          ExceptFrameData(c, name, ct)

SpecDetect == Init /\ [][NextDetect]_vars

NextWs ==
    \/ \E t \in WsClientTypes, id \in WsClientIds : WsConnect(t, id)
    \/ \E id \in WsClientIds : WsDisconnect(id)
    \/ \E id \in WsClientIds, ok \in BOOLEAN : WsSendPersonalMessage(id, ok)

SpecWs == Init /\ [][NextWs]_vars

\* the lists of connections_by_type that hold the id
ListsHolding(id) ==
    {i \in 1..Len(websocket_manager.connections_by_type) :
        InList(websocket_manager.connections_by_type[i].clients, id)}

\* C28 (as the spec states it): after any sequence of connect, disconnect and
\* failed sends the registries agree: a client_id is in some
\* connections_by_type list exactly when it is a key of active_connections,
\* and it is in at most one list.
C28_RegistriesAgree ==
    \A id \in WsClientIds :
        /\ (ListsHolding(id) # {}) <=> (id \in websocket_manager.active_connections)
        /\ Cardinality(ListsHolding(id)) <= 1

NextAnalytics ==
    \/ \E id \in AnClientIds : AnConnect(id)
    \/ \E id \in AnClientIds, ok \in BOOLEAN : AnWelcomeReturn(id, ok)
    \/ \E id \in AnClientIds : AnDisconnect(id)
    \/ \E id \in AnClientIds, type \in AnMessageTypes, topic \in AnTopics,
          ok \in BOOLEAN : AnHandleMessage(id, type, topic, ok)
    \/ \E id \in AnClientIds, ok \in BOOLEAN : PeriodicUpdate(id, ok)

SpecAnalytics == Init /\ [][NextAnalytics]_vars

\* C29 (as the spec states it): the periodic update task runs only while a
\* client is connected: with no active connection, update_task is None.
C29_NoTaskWithoutClients ==
    realtime_analytics_service.active_connections = {}
        => realtime_analytics_service.update_task = NoTask

IsSuffix(a, b) ==
    Len(a) <= Len(b) /\ SubSeq(b, Len(b) - Len(a) + 1, Len(b)) = a

NextRate ==
    \/ \E ip \in ClientIps : Dispatch(ip)
    \/ \E ip \in ClientIps : Respond(ip)
    \/ RateTick

SpecRate == Init /\ [][NextRate]_vars

\* admitted calls of ip with a timestamp in (lo, hi]
AdmittedIn(rl, ip, lo, hi) ==
    Cardinality({i \in 1..Len(rl.admitted[ip]) :
                    lo < rl.admitted[ip][i] /\ rl.admitted[ip][i] <= hi})

\* the step is a dispatch of a request of ip up to call_next or the 429
DispatchStep(ip) ==
    /\ rate_limiting_middleware' # rate_limiting_middleware
    /\ rate_limiting_middleware'.event.ip = ip
    /\ rate_limiting_middleware'.event.status \in {"admitted", "429"}

\* C30: per client IP at most `calls` requests are admitted in any window of
\* `period` seconds; a request is rejected with 429 exactly when `calls`
\* admitted requests of that IP are newer than now - period; a rejected
\* request is not recorded; X-RateLimit-Remaining is never negative.
C30_RateLimit ==
    [][\A ip \in ClientIps :
          LET rl == rate_limiting_middleware
              after == rate_limiting_middleware'
          IN /\ DispatchStep(ip) =>
                   /\ after.event.status = "429"
                        <=> AdmittedIn(rl, ip, now - period, now) >= calls
                   /\ after.event.status = "429" =>
                        /\ after.admitted[ip] = rl.admitted[ip]
                        /\ IsSuffix(after.clients[ip], rl.clients[ip])
                   /\ after.event.status = "admitted" =>
                        after.admitted[ip] = Append(rl.admitted[ip], now)
             /\ \A w \in 0..now' :
                    AdmittedIn(after, ip, w - period, w) <= calls
             /\ after.event.status = "200" => after.event.remaining >= 0]_vars

\* a client is rejected in its second full window, and a response of an
\* admitted request reports no call left
C30_Witness ==
    \E ip \in ClientIps :
        /\ rate_limiting_middleware.event = [ip |-> ip, status |-> "429",
                                              remaining |-> 0]
        /\ Len(rate_limiting_middleware.admitted[ip]) = 2 * calls
        /\ Len(rate_limiting_middleware.clients[ip]) = calls

BatchTypes(c) == {hbatch[c][i].violation_type : i \in 1..Len(hbatch[c])}

\* C11 (as the spec states it): a frame whose face or eye sub-result carries
\* no reading (no faces_detected field, or the failure result of the detector
\* adapter) yields no FACE_NOT_DETECTED and no LOOKING_AWAY violation.
C11_AbsenceIsNoViolation ==
    \A c \in Conns :
        (hmsg[c].type = "frame_data" /\ hmsg[c].input \in MissingDataNames)
            => BatchTypes(c) \cap {"FACE_NOT_DETECTED", "LOOKING_AWAY"} = {}

\* C17 (as the spec states it): for every violation the classifier records,
\* the weight the engine uses for its type equals the trust_score_impact the
\* classifier attached to it.
C17_WeightIsImpact ==
    \A s \in DOMAIN session_violations :
        \A i \in 1..Len(session_violations[s]) :
            Weight(session_violations[s][i].violation_type)
                = session_violations[s][i].trust_score_impact

\* C26 (as the spec states it): when process_frame_data has returned, the
\* list it returns is a contiguous suffix of the session's ledger, also when
\* the detection of a later signal of the frame raised.
C26_ReturnedAreRecorded ==
    \A c \in Conns :
        (hpc[c] = "loop" /\ hmsg[c].type = "frame_data"
           /\ hdone[c] = Len(hbatch[c]))
            => IsSuffix(hbatch[c],
                        GetSessionViolations(session_violations,
                                             ConnSession[c]))

\* ---- properties of the socket handlers (Spec) ----

InLedger(ledger, violation) ==
    \E i \in 1..Len(GetSessionViolations(ledger, violation.session_id)) :
        GetSessionViolations(ledger, violation.session_id)[i] = violation

SessionUnchanged(s) ==
    /\ GetSessionViolations(session_violations', s)
         = GetSessionViolations(session_violations, s)
    /\ Get(score_history', s, <<>>) = Get(score_history, s, <<>>)
    /\ eval_log'[s] = eval_log[s]

\* the step is taken by the handler of connection c
StepOf(c) ==
    \/ hpc'[c] # hpc[c]
    \/ /\ eval_log' # eval_log
       /\ hpc' = hpc
       /\ result'.session_id = ConnSession[c]

\* handler c is inside a call: it has appended to the ledger and has not yet
\* stored the score of that call
MidCall(c) == hpc[c] = "alert" \/ (hpc[c] = "loop" /\ hdone[c] > 0)


\* C4 (as the spec states it): every processed input, a frame, an audio
\* sample or a browser event, ends with its violations in the ledger and with
\* exactly one evaluation of the trust score over the whole ledger.
C4_EveryInputEvaluates ==
    [][\A c \in Conns :
          (hpc[c] = "loop" /\ hpc'[c] = "recv")
              => /\ \A i \in 1..Len(hbatch[c]) :
                        InLedger(session_violations', hbatch[c][i])
                 /\ Len(eval_log'[ConnSession[c]])
                      = Len(eval_log[ConnSession[c]]) + 1
                 /\ result'.violations_count
                      = Len(GetSessionViolations(session_violations',
                                                 ConnSession[c]))]_vars

\* C5: calls on the same session are serialized: while one handler is between
\* its first ledger append and the storing of its score, no step of another
\* handler of that session appends to the ledger or evaluates the score, so
\* every stored score is computed from whole batches only.
C5_Serialized ==
    [][\A c, d \in Conns :
          (c # d /\ ConnSession[c] = ConnSession[d] /\ MidCall(c) /\ StepOf(d))
              => SessionUnchanged(ConnSession[c])]_vars

\* a handler has appended both violations of a two-violation batch on top of
\* an already evaluated session while another socket of that session is open
C5_Witness ==
    /\ hpc[1] = "alert" /\ hdone[1] = 1 /\ Len(hbatch[1]) = 2
    /\ hpc[2] = "recv"
    /\ Len(eval_log[1]) = 1
    /\ Len(GetSessionViolations(session_violations, 1)) = 2

\* C9: a process or evaluate step on session A leaves the ledger and the
\* score history of every other session B unchanged.
C9_NoSharing ==
    [][\A c \in Conns :
          StepOf(c) => \A b \in SessionIds \ {ConnSession[c]} :
                           SessionUnchanged(b)]_vars

\* both sessions have a ledger and a score history of their own
C9_Witness ==
    /\ \A s \in SessionIds :
          /\ Len(GetSessionViolations(session_violations, s)) = 1
          /\ Len(Get(score_history, s, <<>>)) = 1
    /\ session_violations[1][1].violation_type
         # session_violations[2][1].violation_type

\* C10: when creating the alert or sending the notification fails, the
\* violation stays in the ledger, the loop goes on to the next violation, and
\* the evaluation that ends the call counts every violation of the batch.
C10_NoRollback ==
    [][\A c \in Conns :
          /\ (hpc[c] = "alert" /\ hpc'[c] = "loop")
                => /\ InLedger(session_violations', hbatch[c][hdone[c] + 1])
                   /\ session_violations' = session_violations
                   /\ hdone'[c] = hdone[c] + 1
          /\ (hpc[c] = "loop" /\ hpc'[c] = "recv" /\ hmsg[c].type = "frame_data")
                => /\ Len(halert[c]) = Len(hbatch[c])
                   /\ \A i \in 1..Len(hbatch[c]) :
                          InLedger(session_violations', hbatch[c][i])
                   /\ result'.violations_count
                        = Len(GetSessionViolations(session_violations',
                                                   ConnSession[c]))]_vars

\* the alert of the first violation of a batch failed, the notification of the
\* second failed, both violations are in the ledger and the loop is at its end
C10_Witness ==
    \E c \in Conns :
        /\ hpc[c] = "loop" /\ hdone[c] = 2 /\ Len(hbatch[c]) = 2
        /\ halert[c] = <<"alert_fail", "notify_fail">>
        /\ hmsg[c].type = "frame_data"
        /\ InLedger(session_violations, hbatch[c][1])
        /\ InLedger(session_violations, hbatch[c][2])

IsPrefix(a, b) == Len(a) <= Len(b) /\ SubSeq(b, 1, Len(a)) = a

\* C12: the ledger of every session is append-only and insertion-ordered:
\* whatever a step does, including one in which creating the alert fails, the
\* ledger before it is a prefix of the ledger after it.
C12_AppendOnly ==
    [][\A s \in SessionIds :
          IsPrefix(GetSessionViolations(session_violations, s),
                   GetSessionViolations(session_violations', s))]_vars

\* two calls at different times, the later one with a failed alert, left their
\* violations in the ledger of one session in the order of arrival
C12_Witness ==
    \E s \in SessionIds, c \in Conns :
        /\ Len(GetSessionViolations(session_violations, s)) = 2
        /\ session_violations[s][1].timestamp < session_violations[s][2].timestamp
        /\ ConnSession[c] = s /\ hpc[c] = "loop" /\ hdone[c] = 1
        /\ halert[c] = <<"alert_fail">>

\* ---- properties of the coordinator (SpecRt) ----

\* the session was finalized: its 'completed' status message was handled, or
\* end_session marked it completed
Finalized(s) ==
    \/ s \in finalized
    \/ s \in DOMAIN active_sessions /\ active_sessions[s].status = "completed"

\* C3 (as the spec states it): once a session is finalized, no later
\* frame_data call changes that session's ledger or score history.
C3_FinalizedFrozen ==
    [][\A c \in Conns :
          (Finalized(ConnSession[c]) /\ hpc[c] # "recv" /\ StepOf(c))
              => SessionUnchanged(ConnSession[c])]_vars

\* C13 (as the spec states it): start_session returns True and leaves the
\* session tracked as active with the given user_id, no violations and the
\* initial trust score.
C13_StartReturnsTrue ==
    [][\A s \in SessionIds, u \in UserIds :
          StartSession(s, u)
              => /\ rt_return'.value = "True"
                 /\ s \in DOMAIN active_sessions'
                 /\ active_sessions'[s].status = "active"
                 /\ active_sessions'[s].user_id = u
                 /\ active_sessions'[s].violations = <<>>
                 /\ active_sessions'[s].trust_score = 100]_vars

\* C14 (as the spec states it): end_session on an active session returns a
\* summary with status 'completed' and removes the session from the active
\* set.
C14_EndReturnsSummary ==
    [][\A s \in SessionIds :
          (/\ s \in DOMAIN active_sessions
           /\ active_sessions[s].status = "active"
           /\ EndSession(s))
              => /\ rt_return'.value = "completed"
                 /\ s \notin DOMAIN active_sessions']_vars

\* C6 (as the spec states it): end_session on a session that was already
\* ended returns an error and changes nothing.
C6_SecondEndNoMutation ==
    [][\A s \in SessionIds :
          (/\ s \in DOMAIN active_sessions
           /\ active_sessions[s].status = "completed"
           /\ EndSession(s))
              => /\ rt_return'.value # "ok"
                 /\ active_sessions' = active_sessions
                 /\ websocket_connections' = websocket_connections]_vars

\* C7 (as the spec states it): a session_id that was never started has no
\* ledger and no score history: processing input for it creates no state.
C7_UnknownSessionNoState ==
    \A s \in SessionIds :
        s \notin DOMAIN active_sessions
            => /\ s \notin DOMAIN session_violations
               /\ s \notin DOMAIN score_history

\* C8 (as the spec states it): a completed session stays completed, and
\* start_session on an active session keeps its recorded violations.
C8_CompletedTerminal ==
    [][\A s \in SessionIds :
          s \in DOMAIN active_sessions
              => /\ active_sessions[s].status = "completed"
                    => active_sessions'[s].status = "completed"
                 /\ active_sessions'[s].violations
                      = active_sessions[s].violations]_vars

====
